---- MODULE Spec2Model ----
(***************************************************************************)
(* A model of the enseada authorization server: the document-store layer   *)
(* (couchdb::client, couchdb::db), the bootstrap migration                 *)
(* (couchdb::migrate) and the OAuth endpoints (handlers::oauth).           *)
(*                                                                         *)
(* Four specifications share the variables:                               *)
(*   SpecBoot   two bootstrap runs against one store;                      *)
(*   SpecStore  two callers of Database.get / put / exists on one store;   *)
(*   SpecAuth   POST /authorize (login);                                   *)
(*   SpecToken  POST /token (token).                                       *)
(***************************************************************************)
EXTENDS Integers, FiniteSets, Sequences, TLC

VARIABLES dbs, docs, nfaults, boot, overlap, call, lpc, req, vres, hres, resp,
          codesAtStart, retried, tokens, tok, form, guid, sc, usr

vars == <<dbs, docs, nfaults, boot, overlap, call, lpc, req, vres, hres, resp,
          codesAtStart, retried, tokens, tok, form, guid, sc, usr>>

storeVars == <<dbs, docs, nfaults>>
bootVars == <<boot, overlap>>
authVars == <<lpc, req, vres, hres, resp, codesAtStart, retried, tokens, tok,
              form>>
pureVars == <<guid, sc, usr>>

(***************************************************************************)
(* Bounds of the model.                                                    *)
(***************************************************************************)
\* Backend or transport faults injected in one behaviour.
MaxFaults == 1
\* Token requests recorded per authorization code.
MaxTokenRequests == 2

(***************************************************************************)
(* HTTP statuses.  0 stands for a transport failure: a reqwest error with  *)
(* no status.                                                              *)
(***************************************************************************)
NOT_FOUND == 404
CONFLICT == 409
FaultStatuses == {0, 500}

\* reqwest's error_for_status: 4xx and 5xx become errors; a request that was
\* never answered (0) is an error of send().
IsSuccess(st) == st >= 200 /\ st < 300

(***************************************************************************)
(* The document store: the databases that exist and, per document key, the *)
(* revision (0: no document) and the body.                                  *)
(***************************************************************************)
OAUTH == "oauth"
USERS == "users"
DbNames == {OAUTH, USERS}

Sigs == {"s1", "s2"}
ClientKey == "oauth:enseada"
CodeKey(sig) == "code:" \o sig
CodeKeys == {CodeKey(s) : s \in Sigs}
Keys == {ClientKey} \cup CodeKeys

NoBody == [none |-> TRUE]
NoDoc == [rev |-> 0, body |-> NoBody]
Exists(k) == docs[k].rev > 0

\* The answers of the backend, from the state of the store.
BackendGetDb(name) == IF name \in dbs THEN 200 ELSE NOT_FOUND
\* Creating a database that exists fails (412 Precondition Failed).
BackendPutDb(name) == IF name \in dbs THEN 412 ELSE 201
BackendHeadDoc(k) == IF OAUTH \in dbs /\ Exists(k) THEN 200 ELSE NOT_FOUND
BackendGetDoc(k) == IF OAUTH \in dbs /\ Exists(k) THEN 200 ELSE NOT_FOUND
\* A PUT of a new entity carries no revision: it creates the document or, when
\* one is there, is refused with 409.
BackendPutDoc(k) ==
    IF OAUTH \notin dbs THEN NOT_FOUND
    ELSE IF Exists(k) THEN CONFLICT ELSE 201

\* What one backend call may answer: the backend's answer or, while faults are
\* left, a fault.
Responses(answer) ==
    {answer} \cup (IF nfaults < MaxFaults THEN FaultStatuses ELSE {})
CountFault(st) == nfaults' = nfaults + (IF st \in FaultStatuses THEN 1 ELSE 0)

(***************************************************************************)
(* couchdb::client and couchdb::db: how each operation reports the status  *)
(* of its backend call.                                                    *)
(***************************************************************************)
\* Client::exists
ClientExists(st) ==
    IF IsSuccess(st) THEN "True"
    ELSE IF st = NOT_FOUND THEN "False"
    ELSE "Generic"

\* Database::exists
DbExists(st) == ClientExists(st)

\* Database::get_self
GetSelf(st) == IF IsSuccess(st) THEN "Ok" ELSE "Generic"

\* Database::create_self
CreateSelf(st) == IF IsSuccess(st) THEN "Ok" ELSE "Generic"

\* Database::get, without the translation of 404.
DbGetNoNotFound(st) == IF IsSuccess(st) THEN "Ok" ELSE "Generic"
\* Database::get
DbGet(st) ==
    IF IsSuccess(st) THEN "Ok"
    ELSE IF st = NOT_FOUND THEN "NotFound"
    ELSE "Generic"

\* Database::put, without the translation of 409.
DbPutNoConflict(st) == IF IsSuccess(st) THEN "Ok" ELSE "Generic"
\* Database::put
DbPut(st) ==
    IF IsSuccess(st) THEN "Ok"
    ELSE IF st = CONFLICT THEN "Conflict"
    ELSE "Generic"

(***************************************************************************)
(* Entities.                                                               *)
(***************************************************************************)
CallbackUri == "https://host/ui/auth/callback"
AltUri == "https://host/alt/callback"
EvilUri == "https://evil.example/cb"
BadUri == "not a url"

\* The client run registers: Client::public("enseada", Scope::from("profile"),
\* {public_host.join("/ui/auth/callback")}), as its entity.
DefaultClient ==
    [client_id |-> "enseada", allowed_scope |-> {"profile"},
     redirect_uris |-> {CallbackUri}, public |-> TRUE]
\* The default client after an administrator changed it.
CustomClient ==
    [client_id |-> "enseada", allowed_scope |-> {"profile", "email"},
     redirect_uris |-> {CallbackUri, AltUri}, public |-> TRUE]

(***************************************************************************)
(* Bootstrap: couchdb::migrate.  Every backend call of run is one step.    *)
(***************************************************************************)
Runners == {"r1", "r2"}
IdleRun == [pc |-> "idle", db |-> OAUTH, result |-> "none", err |-> "none",
            calls |-> 0, after |-> FALSE, steps |-> <<>>, st |-> 0]
Running(r) == boot[r].pc \notin {"idle", "done"}

\* create_db_if_not_exist that takes the database as present whatever the
\* probe returned.
CreateDbAlwaysSkips(probe) == TRUE
\* create_db_if_not_exist returns Ok(true) without creating when the probe
\* succeeded.
CreateDbSkips(probe) == probe = "Ok"

\* create_oauth_client that never skips the put.
ClientNeverSkips(probe) == FALSE
\* create_oauth_client returns Ok(true) without a put when the document exists.
ClientSkips(probe) == probe = "True"

\* create_oauth_client that takes a failed existence probe for an absent
\* document.
ClientProbeIgnored(probe) == FALSE
\* create_oauth_client returns the error of a failed existence probe (the ?).
ClientProbeFails(probe) == probe = "Generic"

\* run: the step that follows a database step that returned Ok.
AfterDb(b) ==
    IF b.db = OAUTH
    THEN [b EXCEPT !.pc = "get_self", !.db = USERS, !.steps = Append(@, "Ok")]
    ELSE [b EXCEPT !.pc = "exists", !.steps = Append(@, "Ok")]

\* run: Ok(()) after the last step returned Ok.
RunOk(b) == [b EXCEPT !.pc = "done", !.result = "Ok", !.steps = Append(@, "Ok")]
\* run that goes on to the default client after a step returned an error.
RunErrGoesOn(b, e) ==
    [b EXCEPT !.pc = "exists", !.err = e, !.steps = Append(@, "Err")]
\* run: the ? after each step returns the step's error.
RunErr(b, e) ==
    [b EXCEPT !.pc = "done", !.result = "Err", !.err = e,
              !.steps = Append(@, "Err")]
\* One backend call answered with status st.
Called(b, st) == [b EXCEPT !.calls = @ + 1, !.st = st]

BootStart(r) ==
    /\ boot[r].pc = "idle"
    /\ boot' = [boot EXCEPT ![r].pc = "get_self", ![r].db = OAUTH,
                             ![r].after = \E o \in Runners : boot[o].pc = "done"]
    /\ overlap' = (overlap \/ \E o \in Runners \ {r} : Running(o))
    /\ UNCHANGED <<storeVars, call, authVars, pureVars>>

BootGetSelf(r) ==
    /\ boot[r].pc = "get_self"
    /\ \E st \in Responses(BackendGetDb(boot[r].db)) :
         /\ CountFault(st)
         /\ boot' = [boot EXCEPT ![r] =
                IF CreateDbSkips(GetSelf(st)) THEN AfterDb(Called(@, st))
                ELSE [Called(@, st) EXCEPT !.pc = "create_self"]]
    /\ UNCHANGED <<dbs, docs, overlap, call, authVars, pureVars>>

BootCreateSelf(r) ==
    /\ boot[r].pc = "create_self"
    /\ \E st \in Responses(BackendPutDb(boot[r].db)) :
         /\ CountFault(st)
         /\ dbs' = IF IsSuccess(st) THEN dbs \cup {boot[r].db} ELSE dbs
         /\ boot' = [boot EXCEPT ![r] =
                IF CreateSelf(st) = "Ok" THEN AfterDb(Called(@, st))
                ELSE RunErr(Called(@, st), CreateSelf(st))]
    /\ UNCHANGED <<docs, overlap, call, authVars, pureVars>>

BootExists(r) ==
    /\ boot[r].pc = "exists"
    /\ \E st \in Responses(BackendHeadDoc(ClientKey)) :
         /\ CountFault(st)
         /\ boot' = [boot EXCEPT ![r] =
                IF ClientProbeFails(DbExists(st)) THEN RunErr(Called(@, st), "Generic")
                ELSE IF ClientSkips(DbExists(st)) THEN RunOk(Called(@, st))
                ELSE [Called(@, st) EXCEPT !.pc = "put"]]
    /\ UNCHANGED <<dbs, docs, overlap, call, authVars, pureVars>>

BootPut(r) ==
    /\ boot[r].pc = "put"
    /\ \E st \in Responses(BackendPutDoc(ClientKey)) :
         /\ CountFault(st)
         /\ docs' = IF IsSuccess(st)
                    THEN [docs EXCEPT ![ClientKey] = [rev |-> 1, body |-> DefaultClient]]
                    ELSE docs
         /\ boot' = [boot EXCEPT ![r] =
                IF DbPut(st) = "Ok" THEN RunOk(Called(@, st))
                ELSE RunErr(Called(@, st), DbPut(st))]
    /\ UNCHANGED <<dbs, overlap, call, authVars, pureVars>>

(***************************************************************************)
(* Callers of Database.get / put / exists.  A call is issued, then         *)
(* executed as one backend call, then returned.                            *)
(***************************************************************************)
Callers == {"c1", "c2"}
IdleCall == [op |-> "idle", key |-> CodeKey("s1"), body |-> NoBody,
             out |-> "none", st |-> 0, had |-> FALSE, sawAbsent |-> FALSE]

\* The new entity caller c stores: an authorization code of user c.
CodeEntity(c) ==
    [client_id |-> "enseada", redirect_uri |-> CallbackUri,
     scope |-> {"profile"}, user_id |-> c]

Issue(c) ==
    /\ call[c].op = "idle"
    /\ \E op \in {"get", "put", "exists"}, k \in CodeKeys :
         call' = [call EXCEPT ![c] =
            [op |-> op, key |-> k,
             body |-> IF op = "put" THEN CodeEntity(c) ELSE NoBody,
             out |-> "pending", st |-> 0, had |-> FALSE,
             sawAbsent |-> ~Exists(k)]]
    /\ UNCHANGED <<storeVars, bootVars, authVars, pureVars>>

ExecGet(c) ==
    /\ call[c].op = "get" /\ call[c].out = "pending"
    /\ \E st \in Responses(BackendGetDoc(call[c].key)) :
         /\ CountFault(st)
         /\ call' = [call EXCEPT ![c].out = DbGet(st), ![c].st = st,
                                 ![c].had = Exists(call[c].key)]
    /\ UNCHANGED <<dbs, docs, bootVars, authVars, pureVars>>

ExecPut(c) ==
    /\ call[c].op = "put" /\ call[c].out = "pending"
    /\ \E st \in Responses(BackendPutDoc(call[c].key)) :
         /\ CountFault(st)
         /\ docs' = IF IsSuccess(st)
                    THEN [docs EXCEPT ![call[c].key] =
                            [rev |-> 1, body |-> call[c].body]]
                    ELSE docs
         /\ call' = [call EXCEPT ![c].out = DbPut(st), ![c].st = st,
                                 ![c].had = Exists(call[c].key)]
    /\ UNCHANGED <<dbs, bootVars, authVars, pureVars>>

ExecExists(c) ==
    /\ call[c].op = "exists" /\ call[c].out = "pending"
    /\ \E st \in Responses(BackendHeadDoc(call[c].key)) :
         /\ CountFault(st)
         /\ call' = [call EXCEPT ![c].out = DbExists(st), ![c].st = st,
                                 ![c].had = Exists(call[c].key)]
    /\ UNCHANGED <<dbs, docs, bootVars, authVars, pureVars>>

Return(c) ==
    /\ call[c].op # "idle" /\ call[c].out # "pending"
    /\ call' = [call EXCEPT ![c] = IdleCall]
    /\ UNCHANGED <<storeVars, bootVars, authVars, pureVars>>

(***************************************************************************)
(* OAuth: the error vocabulary (oauth::error), the protocol engine         *)
(* (validate, handle) and the endpoints login and token (handlers::oauth). *)
(***************************************************************************)
ErrorKinds ==
    {"access_denied", "invalid_client", "invalid_grant", "invalid_redirect_uri",
     "invalid_request", "invalid_scope", "server_error",
     "temporarily_unavailable", "unauthorized_client", "unknown",
     "unsupported_grant_type", "unsupported_response_type"}
\* The kinds validate answers with.
ValidateKinds ==
    {"invalid_client", "invalid_redirect_uri", "unsupported_response_type",
     "invalid_scope"}
\* The kinds a failed handle may answer with.
HandleKinds == ErrorKinds \ ValidateKinds

NoRequest ==
    [response_type |-> "code", client_id |-> "enseada",
     redirect_uri |-> CallbackUri, scope |-> {}, state |-> "none"]
NoResult == [ok |-> FALSE, kind |-> "none", error_uri |-> "none", sig |-> "none"]
NoResponse == [type |-> "none", target |-> "none", query |-> {}, body |-> "none"]

Requests ==
    [response_type : {"code", "token"},
     client_id : {"enseada", "ghost"},
     redirect_uri : {CallbackUri, EvilUri, BadUri},
     scope : {{}, {"profile"}, {"profile", "admin"}},
     state : {"none", "xyz"}]

\* Error::new(kind, description): no error_uri.
NewError(kind) == [ok |-> FALSE, kind |-> kind, error_uri |-> "none", sig |-> "none"]
Success(sig) == [ok |-> TRUE, kind |-> "none", error_uri |-> "none", sig |-> sig]
Description(kind) == "description of " \o kind
\* Display for Error: "{error}: {error_description}".
ErrorToString(e) == e.kind \o ": " \o Description(e.kind)

\* ClientStorage::get_client: the client stored under the id, if any.
ClientKeyOf(id) == "oauth:" \o id
HasClient(id) == ClientKeyOf(id) \in Keys /\ Exists(ClientKeyOf(id))
GetClient(id) == docs[ClientKeyOf(id)].body

\* OAuthHandler::validate with the scope checked before the redirect URI.
ValidateScopeFirst(r) ==
    IF ~HasClient(r.client_id) THEN NewError("invalid_client")
    ELSE IF ~(r.scope \subseteq GetClient(r.client_id).allowed_scope)
    THEN NewError("invalid_scope")
    ELSE IF r.redirect_uri \notin GetClient(r.client_id).redirect_uris
    THEN NewError("invalid_redirect_uri")
    ELSE IF r.response_type # "code" THEN NewError("unsupported_response_type")
    ELSE Success("none")
\* OAuthHandler::validate: client_id, redirect_uri, response_type, scope, in
\* this order, the first failure returned.
Validate(r) ==
    IF ~HasClient(r.client_id) THEN NewError("invalid_client")
    ELSE IF r.redirect_uri \notin GetClient(r.client_id).redirect_uris
    THEN NewError("invalid_redirect_uri")
    ELSE IF r.response_type # "code" THEN NewError("unsupported_response_type")
    ELSE IF ~(r.scope \subseteq GetClient(r.client_id).allowed_scope)
    THEN NewError("invalid_scope")
    ELSE Success("none")

\* The authorization code handle builds for a request.
NewCode(r) ==
    [client_id |-> r.client_id, redirect_uri |-> r.redirect_uri,
     scope |-> r.scope, user_id |-> "user"]
Codes == {s \in Sigs : Exists(CodeKey(s))}

\* Url::parse of the request's redirect_uri.
Parses(u) == u # BadUri

\* serde_urlencoded of an Error: error, error_description and, when set,
\* error_uri.
ErrorQuery(e) ==
    {<<"error", e.kind>>, <<"error_description", Description(e.kind)>>}
    \cup (IF e.error_uri # "none" THEN {<<"error_uri", e.error_uri>>} ELSE {})
\* An AuthorizationResponse whose state is serialized even when it is None.
CodeQueryEmptyState(res, r) ==
    {<<"code", res.sig>>}
    \cup {<<"state", IF r.state # "none" THEN r.state ELSE "">>}
\* serde_urlencoded of an AuthorizationResponse: code and, when present, state.
CodeQuery(res, r) ==
    {<<"code", res.sig>>}
    \cup (IF r.state # "none" THEN {<<"state", r.state>>} ELSE {})

\* redirect_back: the URL with its query replaced.
RedirectBack(url, query) ==
    [type |-> "redirect", target |-> url, query |-> query, body |-> "none"]
BadRequest(body) ==
    [type |-> "bad_request", target |-> "none", query |-> {}, body |-> body]
\* Url::parse(..).unwrap() on a string that is no URL: the handler panics.
Panicked == [type |-> "panic", target |-> "none", query |-> {}, body |-> "none"]

\* login with handle called whatever validate returned.
HandleAlwaysRuns(v) == TRUE
\* login: validate.and_then(|_| handler.handle(&auth)).
HandleRuns(v) == v.ok

\* login: the result of validate.and_then(handle).
Outcome == IF vres.ok THEN hres ELSE vres

\* login that parses redirect_uri only where it redirects.
RespondParsesLate(r, out) ==
    IF ~out.ok /\ out.kind = "invalid_redirect_uri"
    THEN BadRequest(ErrorToString(out))
    ELSE IF ~Parses(r.redirect_uri) THEN Panicked
    ELSE IF out.ok THEN RedirectBack(r.redirect_uri, CodeQuery(out, r))
    ELSE RedirectBack(r.redirect_uri, ErrorQuery(out))
\* login: the response from the outcome.
Respond(r, out) ==
    IF ~Parses(r.redirect_uri) THEN Panicked
    ELSE IF out.ok THEN RedirectBack(r.redirect_uri, CodeQuery(out, r))
    ELSE IF out.kind = "invalid_redirect_uri" THEN BadRequest(ErrorToString(out))
    ELSE RedirectBack(r.redirect_uri, ErrorQuery(out))

LoginStart ==
    /\ lpc \in {"idle", "done"}
    /\ \E r \in Requests : req' = r
    /\ lpc' = "validate"
    /\ vres' = NoResult
    /\ hres' = NoResult
    /\ resp' = NoResponse
    /\ codesAtStart' = Codes
    /\ retried' = FALSE
    /\ UNCHANGED <<storeVars, bootVars, call, tokens, tok, form, pureVars>>

LoginValidate ==
    /\ lpc = "validate"
    /\ vres' = Validate(req)
    /\ lpc' = IF HandleRuns(Validate(req)) THEN "handle" ELSE "respond"
    /\ UNCHANGED <<storeVars, bootVars, call, req, hres, resp, codesAtStart,
                   retried, tokens, tok, form, pureVars>>

\* OAuthHandler::handle that returns a conflict of store_code as an error.
ConflictSurfaced(out) == FALSE
\* OAuthHandler::handle: a conflict of store_code is retried with a freshly
\* generated signature.
ConflictRetried(out) == out = "Conflict"

\* OAuthHandler::handle: a generated signature, the code stored under it; a
\* conflict is retried with another signature, any other failure is returned.
LoginHandle ==
    /\ lpc = "handle"
    /\ \E sig \in Sigs : \E st \in Responses(BackendPutDoc(CodeKey(sig))) :
         /\ CountFault(st)
         /\ docs' = IF IsSuccess(st)
                    THEN [docs EXCEPT ![CodeKey(sig)] =
                            [rev |-> 1, body |-> NewCode(req)]]
                    ELSE docs
         /\ \/ /\ DbPut(st) = "Ok"
               /\ hres' = Success(sig)
               /\ lpc' = "respond"
               /\ retried' = retried
            \/ /\ DbPut(st) # "Ok" /\ ConflictRetried(DbPut(st))
               /\ hres' = hres
               /\ lpc' = "handle"
               /\ retried' = TRUE
            \/ /\ DbPut(st) # "Ok" /\ ~ConflictRetried(DbPut(st))
               /\ \E k \in HandleKinds, u \in {"none", "https://host/errors"} :
                    hres' = [NewError(k) EXCEPT !.error_uri = u]
               /\ lpc' = "respond"
               /\ retried' = (retried \/ DbPut(st) = "Conflict")
    /\ UNCHANGED <<dbs, bootVars, call, req, vres, resp, codesAtStart, tokens, tok,
                   form, pureVars>>

LoginRespond ==
    /\ lpc = "respond"
    /\ resp' = Respond(req, Outcome)
    /\ lpc' = "done"
    /\ UNCHANGED <<storeVars, bootVars, call, req, vres, hres, codesAtStart,
                   retried, tokens, tok, form, pureVars>>

\* POST /token.
TokenRequests ==
    [grant_type : {"authorization_code", "password"}, code : Sigs,
     client_id : {"enseada", "ghost"}, redirect_uri : {CallbackUri, EvilUri}]
NoToken == [sent |-> FALSE, request |-> CHOOSE t \in TokenRequests : TRUE,
            ok |-> FALSE, kind |-> "none", scope |-> {}, scopeOfCode |-> {},
            wasValid |-> FALSE]

\* A request that presents a stored code with the code's client and redirect URI.
PresentsCode(t) ==
    /\ Exists(CodeKey(t.code))
    /\ docs[CodeKey(t.code)].body.client_id = t.client_id
    /\ docs[CodeKey(t.code)].body.redirect_uri = t.redirect_uri

\* token: the fixed response, whatever the request.
TokenResponse(t) ==
    [ok |-> TRUE, kind |-> "none", access_token |-> "access_token",
     token_type |-> "bearer", expires_in |-> 3600, refresh_token |-> "none",
     scope |-> {"profile", "email"}]

Token ==
    /\ \E t \in TokenRequests :
         /\ Len(tokens[t.code]) < MaxTokenRequests
         /\ tok' = [sent |-> TRUE, request |-> t, ok |-> TokenResponse(t).ok,
                    kind |-> TokenResponse(t).kind,
                    scope |-> TokenResponse(t).scope,
                    scopeOfCode |-> IF Exists(CodeKey(t.code))
                                    THEN docs[CodeKey(t.code)].body.scope ELSE {},
                    wasValid |-> PresentsCode(t) /\ t.grant_type = "authorization_code"]
         /\ tokens' = IF PresentsCode(t) /\ t.grant_type = "authorization_code"
                      THEN [tokens EXCEPT ![t.code] =
                              Append(@, IF TokenResponse(t).ok THEN "Ok"
                                        ELSE TokenResponse(t).kind)]
                      ELSE tokens
    /\ UNCHANGED <<storeVars, bootVars, call, lpc, req, vres, hres, resp,
                   codesAtStart, retried, form, pureVars>>

(***************************************************************************)
(* The pure conversions and the user endpoints have a state of their own.  *)
(***************************************************************************)
\* Strings are sequences of characters over a small alphabet with the colon.
MaxStrLen == 5
Alphabet == {"p", "i", ":"}
Strings == UNION {[1..n -> Alphabet] : n \in 0..MaxStrLen}

\* Option<String>.
None == [some |-> FALSE, val |-> <<>>]
Some(v) == [some |-> TRUE, val |-> v]

\* str::contains(":").
Contains(s) == \E i \in 1..Len(s) : s[i] = ":"

\* The position of the first colon of s at or after i, 0 when there is none.
RECURSIVE Find(_, _)
Find(s, i) ==
    IF i > Len(s) THEN 0
    ELSE IF s[i] = ":" THEN i
    ELSE Find(s, i + 1)
\* str::splitn(2, ":"): at most two pieces, cut at the first colon.
SplitN2(s) ==
    LET i == Find(s, 1)
    IN  IF i = 0 THEN <<s>>
        ELSE <<SubSeq(s, 1, i - 1), SubSeq(s, i + 1, Len(s))>>

\* Guid::from that cuts at the last colon.
GuidFromLastColon(s) ==
    IF Contains(s)
    THEN LET i == CHOOSE k \in 1..Len(s) :
                     s[k] = ":" /\ \A j \in (k + 1)..Len(s) : s[j] # ":"
         IN  [partition |-> Some(SubSeq(s, 1, i - 1)),
              id |-> SubSeq(s, i + 1, Len(s))]
    ELSE [partition |-> None, id |-> s]
\* impl From<String> for Guid.
GuidFrom(s) ==
    IF Contains(s)
    THEN [partition |-> Some(SplitN2(s)[1]), id |-> SplitN2(s)[2]]
    ELSE [partition |-> None, id |-> s]

\* Guid::to_string that leaves an empty partition out.
GuidToStringSkipsEmptyPartition(g) ==
    (IF g.partition.some /\ g.partition.val # <<>>
     THEN g.partition.val \o <<":">> ELSE <<>>) \o g.id
\* Guid::to_string that joins partition and id without the colon.
GuidToStringNoSeparator(g) ==
    (IF g.partition.some THEN g.partition.val ELSE <<>>) \o g.id
\* impl ToString for Guid: the partition followed by a colon when there is
\* one, then the id.
GuidToString(g) ==
    (IF g.partition.some THEN g.partition.val \o <<":">> ELSE <<>>) \o g.id

\* serde_json of a string of this alphabet: the string between double quotes.
JsonString(s) == <<"\"">> \o s \o <<"\"">>
JsonParse(j) == SubSeq(j, 2, Len(j) - 1)
\* impl Serialize for Guid: the string form, serialized.
GuidSerialize(g) == JsonString(GuidToString(g))
\* impl Deserialize for Guid: a string, then Guid::from.
GuidDeserialize(j) == GuidFrom(JsonParse(j))

NoGuid == [partition |-> None, id |-> <<>>]
IdleGuid ==
    [pc |-> "idle", s |-> <<>>, g |-> NoGuid, str |-> <<>>, g2 |-> NoGuid,
     json |-> <<>>, back |-> NoGuid]

\* let guid = Guid::from(s).
GuidParse ==
    /\ guid.pc = "input"
    /\ guid' = [guid EXCEPT !.pc = "parsed", !.g = GuidFrom(guid.s)]
    /\ UNCHANGED <<storeVars, bootVars, call, authVars, sc, usr>>
\* guid.to_string().
GuidFormat ==
    /\ guid.pc = "parsed"
    /\ guid' = [guid EXCEPT !.pc = "formatted", !.str = GuidToString(guid.g)]
    /\ UNCHANGED <<storeVars, bootVars, call, authVars, sc, usr>>
\* Guid::from(guid.to_string()).
GuidReparse ==
    /\ guid.pc = "formatted"
    /\ guid' = [guid EXCEPT !.pc = "reparsed",
                            !.g2 = GuidFrom(GuidToString(guid.g))]
    /\ UNCHANGED <<storeVars, bootVars, call, authVars, sc, usr>>
\* serde_json::to_string(&guid).
GuidWrite ==
    /\ guid.pc = "reparsed"
    /\ guid' = [guid EXCEPT !.pc = "serialized", !.json = GuidSerialize(guid.g)]
    /\ UNCHANGED <<storeVars, bootVars, call, authVars, sc, usr>>
\* serde_json::from_str(json).
GuidRead ==
    /\ guid.pc = "serialized"
    /\ guid' = [guid EXCEPT !.pc = "deserialized",
                            !.back = GuidDeserialize(guid.json)]
    /\ UNCHANGED <<storeVars, bootVars, call, authVars, sc, usr>>

(***************************************************************************)
(* oauth::Scope: a set of permission tokens built from a space-separated    *)
(* string or a list of strings.                                             *)
(***************************************************************************)
MaxScopeLen == 2
ScopeTokens == {"profile", "users:read", "users:manage"}
\* The tokens of a scope string, in the order and with the repetitions written.
ScopeSources == UNION {[1..n -> ScopeTokens] : n \in 0..MaxScopeLen}

\* Scope::from: the set of the tokens.
ScopeFrom(src) == {src[i] : i \in 1..Len(src)}

\* matches with receiver and argument exchanged.
MatchesReversed(a, b) == IF b \subseteq a THEN "Ok" ELSE "InvalidScope"
\* Scope::matches: the receiver's tokens are all in the argument's.
Matches(a, b) == IF a \subseteq b THEN "Ok" ELSE "InvalidScope"

IdleScope == [pc |-> "idle", a |-> <<>>, b |-> <<>>, out |-> "none"]

\* Scope::from(a).matches(&Scope::from(b)).
ScopeMatch ==
    /\ sc.pc = "input"
    /\ sc' = [sc EXCEPT !.pc = "matched",
                        !.out = Matches(ScopeFrom(sc.a), ScopeFrom(sc.b))]
    /\ UNCHANGED <<storeVars, bootVars, call, authVars, guid, usr>>

(***************************************************************************)
(* http::handler::user: the user endpoints behind the Scope extractor.      *)
(***************************************************************************)
Usernames == {"alice", "bob"}
Handlers == {"list", "get", "delete", "me", "register"}
\* The session of the request's token, or none when the request has no valid
\* token.
Sessions ==
    {[ok |-> FALSE, scope |-> {}]}
    \cup {[ok |-> TRUE, scope |-> g] : g \in SUBSET ScopeTokens}

IdleUser ==
    [pc |-> "idle", handler |-> "none", session |-> [ok |-> FALSE, scope |-> {}],
     username |-> "none", out |-> "none", ops |-> <<>>, store |-> {},
     before |-> {}]

\* The endpoints with every guard asking for users:read.
RequiredScopeAlwaysRead(h) == {"users:read"}
\* The literal each handler builds its guard from.
RequiredScope(h) ==
    CASE h \in {"list", "get"} -> {"users:read"}
      [] h \in {"delete", "register"} -> {"users:manage"}
      [] h = "me" -> {"profile"}

\* What a handler's body does with the user store once its guard passed.
ListBody(store, u) ==
    [out |-> "Ok", ops |-> <<"list_users">>, store |-> store]
GetBody(store, u) ==
    [out |-> IF u \in store THEN "Ok" ELSE "NotFound",
     ops |-> <<"find_user">>, store |-> store]
DeleteBody(store, u) ==
    IF u \in store
    THEN [out |-> "NoContent", ops |-> <<"find_user", "delete_user">>,
          store |-> store \ {u}]
    ELSE [out |-> "NotFound", ops |-> <<"find_user">>, store |-> store]
MeBody(store, u) == [out |-> "Ok", ops |-> <<>>, store |-> store]
RegisterBody(store, u) ==
    IF u \in store
    THEN [out |-> "Conflict", ops |-> <<"save_user">>, store |-> store]
    ELSE [out |-> "Ok", ops |-> <<"save_user">>, store |-> store \cup {u}]
Body(h, store, u) ==
    CASE h = "list" -> ListBody(store, u)
      [] h = "get" -> GetBody(store, u)
      [] h = "delete" -> DeleteBody(store, u)
      [] h = "me" -> MeBody(store, u)
      [] h = "register" -> RegisterBody(store, u)

\* One request to a handler: the Scope extractor, the guard with its ?, then
\* the body.
Handle(h, session, store, u) ==
    IF ~session.ok
    THEN [out |-> "Unauthorized", ops |-> <<>>, store |-> store]
    ELSE IF Matches(RequiredScope(h), session.scope) # "Ok"
    THEN [out |-> Matches(RequiredScope(h), session.scope), ops |-> <<>>,
          store |-> store]
    ELSE Body(h, store, u)

\* The record of a served request.
Served(h, session, u) ==
    [pc |-> "done", handler |-> h, session |-> session, username |-> u,
     out |-> Handle(h, session, usr.store, u).out,
     ops |-> Handle(h, session, usr.store, u).ops,
     store |-> Handle(h, session, usr.store, u).store,
     before |-> usr.store]

UserList ==
    /\ usr.pc \in {"ready", "done"}
    /\ \E session \in Sessions, u \in Usernames : usr' = Served("list", session, u)
    /\ UNCHANGED <<storeVars, bootVars, call, authVars, guid, sc>>
UserGet ==
    /\ usr.pc \in {"ready", "done"}
    /\ \E session \in Sessions, u \in Usernames : usr' = Served("get", session, u)
    /\ UNCHANGED <<storeVars, bootVars, call, authVars, guid, sc>>
UserDelete ==
    /\ usr.pc \in {"ready", "done"}
    /\ \E session \in Sessions, u \in Usernames : usr' = Served("delete", session, u)
    /\ UNCHANGED <<storeVars, bootVars, call, authVars, guid, sc>>
UserMe ==
    /\ usr.pc \in {"ready", "done"}
    /\ \E session \in Sessions, u \in Usernames : usr' = Served("me", session, u)
    /\ UNCHANGED <<storeVars, bootVars, call, authVars, guid, sc>>
UserRegister ==
    /\ usr.pc \in {"ready", "done"}
    /\ \E session \in Sessions, u \in Usernames : usr' = Served("register", session, u)
    /\ UNCHANGED <<storeVars, bootVars, call, authVars, guid, sc>>

(***************************************************************************)
(* GET /authorize: login_form.                                              *)
(***************************************************************************)
\* Scope::to_string: the tokens, each once, separated by spaces.
RECURSIVE ScopeToString(_)
ScopeToString(scope) ==
    IF scope = {} THEN <<>>
    ELSE LET t == CHOOSE x \in scope : TRUE
         IN  <<t>> \o ScopeToString(scope \ {t})

\* auth.state.as_ref().unwrap_or(&"".to_string()).
StateOrEmpty(state) == IF state = "none" THEN "" ELSE state

NoForm ==
    [type |-> "none", response_type |-> "none", client_id |-> "none",
     redirect_uri |-> "none", scope |-> <<>>, state |-> "none", query |-> {},
     request |-> NoRequest, validated |-> NoResult]

\* The LoginForm template filled from the request.
Form(r, v) ==
    [type |-> "form", response_type |-> r.response_type,
     client_id |-> r.client_id, redirect_uri |-> r.redirect_uri,
     scope |-> ScopeToString(r.scope), state |-> StateOrEmpty(r.state),
     query |-> {}, request |-> r, validated |-> v]
\* The answer login gives to an error, from login_form.
FormRefused(r, v) ==
    [NoForm EXCEPT !.type = "redirect", !.redirect_uri = r.redirect_uri,
                   !.query = ErrorQuery(v), !.request = r, !.validated = v]

\* login_form that shows the form only to a request that validates.
FormOnlyIfValid(v) == v.ok
\* login_form: an error of validate is logged, the form is returned.
FormShown(v) == TRUE

LoginForm ==
    /\ \E r \in Requests :
         form' = IF FormShown(Validate(r)) THEN Form(r, Validate(r))
                 ELSE FormRefused(r, Validate(r))
    /\ UNCHANGED <<storeVars, bootVars, call, lpc, req, vres, hres, resp,
                   codesAtStart, retried, tokens, tok, pureVars>>

\* No conversion and no user request has run.
PureIdle ==
    /\ guid = IdleGuid
    /\ sc = IdleScope
    /\ usr = IdleUser

(***************************************************************************)
(* Initial states and specifications.                                      *)
(***************************************************************************)
AuthIdle ==
    /\ lpc = "idle"
    /\ req = NoRequest
    /\ vres = NoResult
    /\ hres = NoResult
    /\ resp = NoResponse
    /\ codesAtStart = {}
    /\ retried = FALSE
    /\ tokens = [s \in Sigs |-> <<>>]
    /\ tok = NoToken
    /\ form = NoForm

\* Bootstrap starts from any store: any of the two databases, and in the oauth
\* database no default client, the one bootstrap writes, or a changed one.
InitBoot ==
    /\ dbs \in SUBSET DbNames
    /\ \E d \in {NoDoc, [rev |-> 1, body |-> DefaultClient],
                 [rev |-> 2, body |-> CustomClient]} :
         /\ (OAUTH \notin dbs => d = NoDoc)
         /\ docs = [k \in Keys |-> IF k = ClientKey THEN d ELSE NoDoc]
    /\ nfaults = 0
    /\ boot = [r \in Runners |-> IdleRun]
    /\ overlap = FALSE
    /\ call = [c \in Callers |-> IdleCall]
    /\ AuthIdle
    /\ PureIdle

NextBoot ==
    \E r \in Runners :
        \/ BootStart(r)
        \/ BootGetSelf(r)
        \/ BootCreateSelf(r)
        \/ BootExists(r)
        \/ BootPut(r)

SpecBoot == InitBoot /\ [][NextBoot]_vars

\* Every backend call a run awaits is answered, with a status or a transport
\* failure, so a run that started takes its next step.
BootStep(r) == BootGetSelf(r) \/ BootCreateSelf(r) \/ BootExists(r) \/ BootPut(r)
SpecBootLive == SpecBoot /\ \A r \in Runners : WF_vars(BootStep(r))

\* The store after a bootstrap: both databases and the default client.
Bootstrapped ==
    /\ dbs = DbNames
    /\ docs = [k \in Keys |->
                IF k = ClientKey THEN [rev |-> 1, body |-> DefaultClient]
                ELSE NoDoc]
    /\ nfaults = 0
    /\ boot = [r \in Runners |-> IdleRun]
    /\ overlap = FALSE

\* The callers start from a bootstrapped store or from one whose oauth
\* database was dropped since.
InitStore ==
    /\ dbs \in {DbNames, {USERS}}
    /\ docs = [k \in Keys |->
                IF k = ClientKey /\ OAUTH \in dbs
                THEN [rev |-> 1, body |-> DefaultClient] ELSE NoDoc]
    /\ nfaults = 0
    /\ boot = [r \in Runners |-> IdleRun]
    /\ overlap = FALSE
    /\ call = [c \in Callers |-> IdleCall]
    /\ AuthIdle
    /\ PureIdle

NextStore ==
    \E c \in Callers :
        \/ Issue(c)
        \/ ExecGet(c)
        \/ ExecPut(c)
        \/ ExecExists(c)
        \/ Return(c)

SpecStore == InitStore /\ [][NextStore]_vars

InitAuth ==
    /\ Bootstrapped
    /\ call = [c \in Callers |-> IdleCall]
    /\ AuthIdle
    /\ PureIdle

NextAuth ==
    \/ LoginStart
    \/ LoginValidate
    \/ LoginHandle
    \/ LoginRespond

SpecAuth == InitAuth /\ [][NextAuth]_vars

\* The form is asked for over a store with no client, the default one or a
\* changed one, and with the codes earlier logins issued.
InitForm ==
    /\ dbs = DbNames
    /\ docs \in [Keys -> {NoDoc, [rev |-> 1, body |-> DefaultClient],
                          [rev |-> 2, body |-> CustomClient],
                          [rev |-> 1, body |-> NewCode(CHOOSE r \in Requests :
                               /\ r.client_id = "enseada" /\ r.response_type = "code"
                               /\ r.redirect_uri = CallbackUri
                               /\ r.scope = {"profile"} /\ r.state = "xyz")]}]
    /\ docs[ClientKey].body \in {NoBody, DefaultClient, CustomClient}
    /\ \A k \in CodeKeys : docs[k].body \notin {DefaultClient, CustomClient}
    /\ nfaults = 0
    /\ boot = [r \in Runners |-> IdleRun]
    /\ overlap = FALSE
    /\ call = [c \in Callers |-> IdleCall]
    /\ AuthIdle
    /\ PureIdle

NextForm == LoginForm

SpecForm == InitForm /\ [][NextForm]_vars

\* The token endpoint starts from a store that holds, under each signature, no
\* code or a code that login issued: the code of a request that validates.
InitToken ==
    /\ dbs = DbNames
    /\ docs \in [Keys -> {NoDoc, [rev |-> 1, body |-> DefaultClient]}
                          \cup {[rev |-> 1, body |-> NewCode(r)] : r \in Requests}]
    /\ docs[ClientKey] = [rev |-> 1, body |-> DefaultClient]
    /\ \A s \in Sigs :
         \/ docs[CodeKey(s)] = NoDoc
         \/ \E r \in Requests :
              /\ Validate(r).ok
              /\ docs[CodeKey(s)] = [rev |-> 1, body |-> NewCode(r)]
    /\ nfaults = 0
    /\ boot = [r \in Runners |-> IdleRun]
    /\ overlap = FALSE
    /\ call = [c \in Callers |-> IdleCall]
    /\ AuthIdle
    /\ PureIdle

NextToken == Token

SpecToken == InitToken /\ [][NextToken]_vars

\* Nothing but the conversions or the user endpoints runs: a bootstrapped
\* store and every process idle.
RestIdle ==
    /\ Bootstrapped
    /\ nfaults = 0
    /\ boot = [r \in Runners |-> IdleRun]
    /\ overlap = FALSE
    /\ call = [c \in Callers |-> IdleCall]
    /\ AuthIdle

InitGuid ==
    /\ RestIdle
    /\ guid \in {[IdleGuid EXCEPT !.pc = "input", !.s = s] : s \in Strings}
    /\ sc = IdleScope
    /\ usr = IdleUser

InitScope ==
    /\ RestIdle
    /\ guid = IdleGuid
    /\ sc \in {[IdleScope EXCEPT !.pc = "input", !.a = a, !.b = b] :
                 a \in ScopeSources, b \in ScopeSources}
    /\ usr = IdleUser

NextScope == ScopeMatch

SpecScope == InitScope /\ [][NextScope]_vars

InitUser ==
    /\ RestIdle
    /\ guid = IdleGuid
    /\ sc = IdleScope
    /\ usr \in {[IdleUser EXCEPT !.pc = "ready", !.store = st] :
                  st \in SUBSET Usernames}

NextUser == UserList \/ UserGet \/ UserDelete \/ UserMe \/ UserRegister

SpecUser == InitUser /\ [][NextUser]_vars

NextGuid == GuidParse \/ GuidFormat \/ GuidReparse \/ GuidWrite \/ GuidRead

SpecGuid == InitGuid /\ [][NextGuid]_vars

(***************************************************************************)
(* Properties.                                                             *)
(***************************************************************************)
LoginAnswered == lpc = "done"
Validated == lpc \in {"handle", "respond", "done"}
Registered(r) ==
    HasClient(r.client_id) /\ r.redirect_uri \in GetClient(r.client_id).redirect_uris

\* C1: whenever login answers with a redirect, the target is a redirect URI
\* registered for the client that client_id resolves to; a request whose
\* redirect_uri is not registered (or whose client_id resolves to no client) is
\* answered with a direct error body, never a redirect.  (Stated for the
\* requests whose redirect_uri parses as a URL; the others are C9's.)
RedirectSafety ==
    /\ resp.type = "redirect" =>
          /\ HasClient(req.client_id)
          /\ resp.target \in GetClient(req.client_id).redirect_uris
    /\ (LoginAnswered /\ ~Registered(req) /\ Parses(req.redirect_uri)) =>
          resp.type = "bad_request"

\* C2: of the token requests that present a stored authorization code with the
\* code's client_id and redirect_uri, the first succeeds and every later one
\* fails with invalid_grant.
CodesSingleUse ==
    \A s \in Sigs : \A i \in 1..Len(tokens[s]) :
        tokens[s][i] = IF i = 1 THEN "Ok" ELSE "invalid_grant"

\* C3: validate returns the error of the first failing check, in the order
\* client_id, redirect_uri, response_type, scope, whatever the later fields
\* are, and succeeds when no check fails.
ValidateOrder ==
    Validated =>
        /\ ~HasClient(req.client_id) => vres.kind = "invalid_client"
        /\ (HasClient(req.client_id) /\ ~Registered(req)) =>
              vres.kind = "invalid_redirect_uri"
        /\ (Registered(req) /\ req.response_type # "code") =>
              vres.kind = "unsupported_response_type"
        /\ (Registered(req) /\ req.response_type = "code"
              /\ ~(req.scope \subseteq GetClient(req.client_id).allowed_scope)) =>
              vres.kind = "invalid_scope"
        /\ (Registered(req) /\ req.response_type = "code"
              /\ req.scope \subseteq GetClient(req.client_id).allowed_scope) =>
              vres.ok
        /\ vres.ok <=> vres.kind = "none"
\* C3's case: an unregistered redirect_uri wins over a bad response_type and a
\* bad scope.
ValidateOrderWitness ==
    /\ LoginAnswered
    /\ HasClient(req.client_id)
    /\ req.response_type # "code"
    /\ ~(req.scope \subseteq GetClient(req.client_id).allowed_scope)
    /\ vres.kind = "invalid_redirect_uri"

\* C4 as stated: every request whose scope is not a subset of the client's
\* allowed scope fails with invalid_scope, and stores no code.
ScopeEscalationAlwaysInvalidScope ==
    (Validated /\ HasClient(req.client_id)
        /\ ~(req.scope \subseteq GetClient(req.client_id).allowed_scope)) =>
        /\ vres.kind = "invalid_scope"
        /\ Codes = codesAtStart
\* C4 amended: a request whose scope is not a subset of the client's allowed
\* scope fails validation, with invalid_scope when the client_id, redirect_uri
\* and response_type checks pass; handle runs only after validate succeeded,
\* and a request that fails validation leaves the stored codes unchanged.
ScopeEscalationRejected ==
    /\ (Validated /\ HasClient(req.client_id)
          /\ ~(req.scope \subseteq GetClient(req.client_id).allowed_scope)) =>
          /\ ~vres.ok
          /\ (Registered(req) /\ req.response_type = "code") =>
                vres.kind = "invalid_scope"
    /\ lpc = "handle" => vres.ok
    /\ (Validated /\ ~vres.ok) => (Codes = codesAtStart /\ hres = NoResult)
\* C4's case: a scope escalation answered, with codes in the store.
ScopeEscalationWitness ==
    /\ LoginAnswered
    /\ vres.kind = "invalid_scope"
    /\ "admin" \in req.scope
    /\ codesAtStart # {}
    /\ Codes = codesAtStart

AllDone == \A r \in Runners : boot[r].pc = "done"
Converged ==
    /\ dbs = DbNames
    /\ Exists(ClientKey)
    /\ Cardinality({k \in Keys : Exists(k)}) = 1

\* C5: without faults of the backend, a run that starts after another run has
\* finished, with no run overlapping another, returns Ok and leaves both
\* databases and exactly one document, the default client's.
BootstrapIdempotent ==
    \A r \in Runners :
        (boot[r].pc = "done" /\ boot[r].after /\ ~overlap /\ nfaults = 0) =>
            /\ boot[r].result = "Ok"
            /\ Converged
\* C5's case: a first run that created the databases and the client, then a
\* second run.
BootstrapIdempotentWitness ==
    /\ ~overlap /\ nfaults = 0 /\ AllDone
    /\ \E r, o \in Runners :
         /\ boot[r].after /\ ~boot[o].after
         /\ boot[o].calls = 6
         /\ boot[r].result = "Ok"

\* C6: without faults of the backend, two runs that interleave both return Ok
\* and the store converges to both databases and one default-client document.
BootstrapRaceTolerant ==
    (AllDone /\ nfaults = 0) =>
        /\ \A r \in Runners : boot[r].result = "Ok"
        /\ Converged

PutDone(c) == call[c].op = "put" /\ call[c].out # "pending"
\* The backend answered the call from the state of the database.
Answered(st) == st \notin FaultStatuses /\ OAUTH \in dbs
Translated(c) == call[c].op \in {"get", "put", "exists"} /\ call[c].out # "pending"

\* C7, two concurrent stores: of two stores of the same key, both issued while
\* the key held no document, exactly one succeeds and the other fails with
\* Conflict, and the stored document is the winner's.
WriteOnceRace ==
    \A c, d \in Callers :
        (c # d /\ PutDone(c) /\ PutDone(d) /\ call[c].key = call[d].key
            /\ call[c].sawAbsent /\ call[d].sawAbsent
            /\ Answered(call[c].st) /\ Answered(call[d].st)) =>
            /\ {call[c].out, call[d].out} = {"Ok", "Conflict"}
            /\ call[c].out = "Ok" => docs[call[c].key].body = call[c].body
\* C7, one store: a store of a key that holds a document fails, with Conflict
\* unless the backend call itself failed, and leaves the document unchanged.
WriteOnceStep ==
    \A c \in Callers :
        (call[c].op = "put" /\ call[c].out = "pending" /\ call'[c].out # "pending"
            /\ Exists(call[c].key)) =>
            /\ docs' = docs
            /\ call'[c].out # "Ok"
            /\ Answered(call'[c].st) => call'[c].out = "Conflict"
\* C7: write-once storage.
WriteOnce == [](WriteOnceRace) /\ [][WriteOnceStep]_vars
\* C7's case: two stores of one key raced; one won, the other got Conflict.
WriteOnceWitness ==
    \E c, d \in Callers :
        /\ c # d /\ PutDone(c) /\ PutDone(d) /\ call[c].key = call[d].key
        /\ call[c].sawAbsent /\ call[d].sawAbsent
        /\ call[c].out = "Ok" /\ call[d].out = "Conflict"
        /\ docs[call[c].key].body = call[c].body

\* C8: a read of a missing document is reported as not found, a write answered
\* 409 as Conflict, every other failure of either as the generic error, and
\* none of the three as another.
OutcomeTranslation ==
    \A c \in Callers :
        Translated(c) =>
            /\ call[c].out = "NotFound" <=>
                  (call[c].op = "get" /\ call[c].st = NOT_FOUND)
            /\ call[c].out = "False" <=>
                  (call[c].op = "exists" /\ call[c].st = NOT_FOUND)
            /\ call[c].out = "Conflict" <=>
                  (call[c].op = "put" /\ call[c].st = CONFLICT)
            /\ call[c].out = "Generic" <=>
                  \/ call[c].st \in FaultStatuses
                  \/ call[c].op = "put" /\ call[c].st = NOT_FOUND
                  \/ call[c].op \in {"get", "exists"} /\ call[c].st = CONFLICT
            /\ (call[c].op \in {"get", "exists"} /\ ~call[c].had
                  /\ call[c].st \notin FaultStatuses) =>
                  call[c].out \in {"NotFound", "False"}
            /\ (call[c].op = "put" /\ call[c].had /\ Answered(call[c].st)) =>
                  call[c].out = "Conflict"
\* C8's case: a read reported not found beside a write reported as a conflict.
OutcomeTranslationWitness ==
    \E c, d \in Callers :
        /\ call[c].op = "get" /\ call[c].out = "NotFound" /\ ~call[c].had
        /\ call[d].op = "put" /\ call[d].out = "Conflict"

\* C9: an error of validate or handle is answered with an inline 400 body if
\* and only if its kind is invalid_redirect_uri, and with a redirect to the
\* request's redirect_uri carrying the error for every other kind.
ErrorDispatch ==
    (LoginAnswered /\ ~Outcome.ok) =>
        /\ resp.type = "bad_request" <=> Outcome.kind = "invalid_redirect_uri"
        /\ Outcome.kind # "invalid_redirect_uri" =>
              /\ resp.type = "redirect"
              /\ resp.target = req.redirect_uri
              /\ <<"error", Outcome.kind>> \in resp.query

\* C10: every error redirect carries error, error_description, error_uri when
\* set, and the request's state whenever the request had one.
ErrorRedirectParameters ==
    (LoginAnswered /\ ~Outcome.ok /\ resp.type = "redirect") =>
        /\ <<"error", Outcome.kind>> \in resp.query
        /\ <<"error_description", Description(Outcome.kind)>> \in resp.query
        /\ Outcome.error_uri # "none" =>
              <<"error_uri", Outcome.error_uri>> \in resp.query
        /\ req.state # "none" => <<"state", req.state>> \in resp.query

\* C11: a successful login is answered with a redirect to the request's
\* redirect_uri whose query carries the issued code and the request's state
\* unchanged; a request without state gets no state parameter at all.
SuccessRedirect ==
    (LoginAnswered /\ Outcome.ok) =>
        /\ resp.type = "redirect"
        /\ resp.target = req.redirect_uri
        /\ <<"code", hres.sig>> \in resp.query
        /\ Exists(CodeKey(hres.sig))
        /\ req.state # "none" => <<"state", req.state>> \in resp.query
        /\ \A q \in resp.query :
              /\ q[1] = "code" => q[2] = hres.sig
              /\ q[1] = "state" => q[2] = req.state /\ req.state # "none"
\* C11's case: a success answered to a request that carried no state.
SuccessRedirectWitness ==
    /\ LoginAnswered /\ Outcome.ok
    /\ req.state = "none"
    /\ resp.type = "redirect"

\* C12: a conflict reported by store_code sends handle back to generating a
\* signature and returns nothing to login; whenever handle returns an error
\* to login, that step's store_code failed for another reason than a conflict.
ConflictRetryStep ==
    /\ (lpc = "handle" /\ retried' /\ ~retried) => lpc' = "handle" /\ hres' = hres
    /\ (lpc = "handle" /\ lpc' = "respond" /\ ~hres'.ok) => nfaults' = nfaults + 1
ConflictRetry == [][ConflictRetryStep]_vars
\* C12's case: a login that met a conflict, retried and issued a code.
ConflictRetryWitness ==
    /\ LoginAnswered /\ retried
    /\ Outcome.ok /\ resp.type = "redirect"

\* C13: a token request whose grant_type is not supported fails with
\* unsupported_grant_type and gets no TokenResponse.
UnsupportedGrantRejected ==
    (tok.sent /\ tok.request.grant_type # "authorization_code") =>
        /\ ~tok.ok
        /\ tok.kind = "unsupported_grant_type"

\* C14: the scope of a TokenResponse is the scope stored on the exchanged
\* code, and so lies within the allowed scope of the code's client.
TokenScopeOfCode ==
    (tok.sent /\ tok.wasValid /\ tok.ok) =>
        /\ tok.scope = tok.scopeOfCode
        /\ tok.scope \subseteq GetClient(tok.request.client_id).allowed_scope

GuidParsed == guid.pc \in {"parsed", "formatted", "reparsed", "serialized", "deserialized"}

\* C15: Guid::from cuts a string at its first colon only: the partition is
\* the text before it and the id everything after it, colons included; a
\* string without a colon gives no partition and the whole string as id.
GuidSplitsOnFirstColon ==
    GuidParsed =>
        IF \E i \in 1..Len(guid.s) : guid.s[i] = ":"
        THEN \E i \in 1..Len(guid.s) :
                /\ guid.s[i] = ":"
                /\ \A j \in 1..(i - 1) : guid.s[j] # ":"
                /\ guid.g.partition = Some(SubSeq(guid.s, 1, i - 1))
                /\ guid.g.id = SubSeq(guid.s, i + 1, Len(guid.s))
        ELSE /\ guid.g.partition = None
             /\ guid.g.id = guid.s
\* C15's case: 'p:i:i' parsed to partition 'p' and id 'i:i'.
GuidSplitsOnFirstColonWitness ==
    /\ guid.pc = "parsed"
    /\ guid.s = <<"p", ":", "i", ":", "i">>
    /\ guid.g = [partition |-> Some(<<"p">>), id |-> <<"i", ":", "i">>]

\* C16: for every string s, Guid::from(s).to_string() is s, its JSON form is
\* s between quotes, and the Guid read back from that JSON form has the
\* partition and the id of the Guid written.
GuidStringRoundTrip ==
    /\ guid.pc \in {"formatted", "reparsed", "serialized", "deserialized"} =>
          guid.str = guid.s
    /\ guid.pc \in {"serialized", "deserialized"} =>
          guid.json = <<"\"">> \o guid.s \o <<"\"">>
    /\ guid.pc = "deserialized" =>
          /\ guid.back.partition = guid.g.partition
          /\ guid.back.id = guid.g.id
\* C16's case: a string with several colons and an empty partition, formatted
\* and read back.
GuidStringRoundTripWitness ==
    /\ guid.pc = "deserialized"
    /\ guid.s = <<":", "i", ":", "p">>
    /\ guid.str = guid.s
    /\ guid.back = guid.g

\* C17: for every Guid g the program builds, Guid::from(g.to_string()) has
\* the partition and the id of g.
GuidValueRoundTrip ==
    guid.pc \in {"reparsed", "serialized", "deserialized"} =>
        /\ guid.g2.partition = guid.g.partition
        /\ guid.g2.id = guid.g.id
\* C17's case: a Guid with a partition and a colon in its id, and one without
\* partition, each converted to a string and back.
GuidValueRoundTripWitness ==
    /\ guid.pc = "reparsed"
    /\ guid.g2 = guid.g
    /\ \/ guid.g = [partition |-> Some(<<"p">>), id |-> <<"i", ":", "p">>]
       \/ guid.g = [partition |-> None, id |-> <<"i", "p">>]

\* C18: A.matches(B) succeeds exactly when every token of A is a token of B
\* and fails with InvalidScope otherwise, whatever the order and repetitions
\* of the tokens in the sources: the empty scope matches every B, a non-empty
\* scope never matches the empty one; matching changes neither scope nor
\* anything else.
ScopeSubsetState ==
    sc.pc = "matched" =>
        /\ sc.out = "Ok" <=>
              \A i \in 1..Len(sc.a) : \E j \in 1..Len(sc.b) : sc.b[j] = sc.a[i]
        /\ sc.out # "Ok" => sc.out = "InvalidScope"
        /\ sc.a = <<>> => sc.out = "Ok"
        /\ (sc.a # <<>> /\ sc.b = <<>>) => sc.out = "InvalidScope"
ScopeSubsetStep ==
    sc' # sc =>
        /\ sc'.a = sc.a /\ sc'.b = sc.b
        /\ UNCHANGED <<storeVars, bootVars, call, authVars, guid, usr>>
ScopeSubsetLaw == [](ScopeSubsetState) /\ [][ScopeSubsetStep]_vars
\* C18's case: a scope written with a repeated token matched against one that
\* lists it among others, in another order.
ScopeSubsetLawWitness ==
    /\ sc.pc = "matched"
    /\ sc.a = <<"users:read", "users:read">>
    /\ sc.b = <<"profile", "users:read">>
    /\ sc.out = "Ok"

RequiredToken ==
    CASE usr.handler \in {"list", "get"} -> "users:read"
      [] usr.handler \in {"delete", "register"} -> "users:manage"
      [] usr.handler = "me" -> "profile"
      [] OTHER -> "none"

\* C19: list and get ask for users:read, delete and register for
\* users:manage, me for profile; a request whose session lacks the token is
\* answered with the scope error, calls no UserService operation and leaves
\* the user store as it was; a request whose session has it passes the guard.
ScopeGuardFirst ==
    (usr.pc = "done" /\ usr.session.ok) =>
        /\ RequiredToken \notin usr.session.scope =>
              /\ usr.out = "InvalidScope"
              /\ usr.ops = <<>>
              /\ usr.store = usr.before
        /\ RequiredToken \in usr.session.scope => usr.out # "InvalidScope"
\* C19's case: delete of an existing user refused to a session that may only
\* read users.
ScopeGuardFirstWitness ==
    /\ usr.pc = "done" /\ usr.handler = "delete"
    /\ usr.session = [ok |-> TRUE, scope |-> {"users:read", "profile"}]
    /\ usr.username \in usr.before
    /\ usr.out = "InvalidScope" /\ usr.ops = <<>> /\ usr.store = usr.before

\* C20: a create_oauth_client whose probe runs while the default client's
\* document exists issues no put and leaves the document as it is, and no
\* step of a bootstrap, a put issued after another writer created the
\* document included, changes a document that exists.
ExistingClientKeptStep ==
    /\ \A r \in Runners :
          (boot[r].pc = "exists" /\ boot'[r].pc # "exists" /\ Exists(ClientKey)) =>
              /\ boot'[r].pc = "done"
              /\ docs' = docs
    /\ \A r \in Runners :
          (boot[r].pc = "put" /\ boot'[r].pc # "put" /\ Exists(ClientKey)) =>
              /\ boot'[r].result = "Err"
              /\ docs' = docs
    /\ Exists(ClientKey) => docs'[ClientKey] = docs[ClientKey]
ExistingClientKept == [][ExistingClientKeptStep]_vars
\* C20's case: a bootstrap that ran to its end over a default client an
\* administrator had changed.
ExistingClientKeptWitness ==
    /\ \E r \in Runners :
         /\ boot[r].pc = "done" /\ boot[r].result = "Ok"
         /\ boot[r].calls >= 3
    /\ docs[ClientKey] = [rev |-> 2, body |-> CustomClient]

\* C21: run takes its steps in the order oauth database, users database,
\* default client; a step is under way only when every step before it
\* returned Ok, so the probe and the put of the default client are issued only
\* after both database steps succeeded; the first step that fails ends the run
\* with its error, and a run that ended issues nothing more.
StepOrderState ==
    \A r \in Runners :
        /\ (boot[r].pc \in {"get_self", "create_self"} /\ boot[r].db = OAUTH) =>
              boot[r].steps = <<>>
        /\ (boot[r].pc \in {"get_self", "create_self"} /\ boot[r].db = USERS) =>
              boot[r].steps = <<"Ok">>
        /\ boot[r].pc \in {"exists", "put"} =>
              /\ boot[r].steps = <<"Ok", "Ok">>
              /\ dbs = DbNames
        /\ boot[r].pc = "done" =>
              \/ boot[r].result = "Ok" /\ boot[r].steps = <<"Ok", "Ok", "Ok">>
              \/ /\ boot[r].result = "Err" /\ boot[r].err # "none"
                 /\ boot[r].steps \in {<<"Err">>, <<"Ok", "Err">>, <<"Ok", "Ok", "Err">>}
StepOrderStep ==
    \A r \in Runners :
        /\ boot[r].pc = "done" => boot'[r] = boot[r]
        /\ boot'[r].calls > boot[r].calls =>
              /\ boot'[r].calls = boot[r].calls + 1
              /\ \A i \in 1..Len(boot[r].steps) : boot[r].steps[i] = "Ok"
StepOrder == [](StepOrderState) /\ [][StepOrderStep]_vars
\* C21's case: a run whose users step failed and that never probed the client.
StepOrderWitness ==
    \E r \in Runners :
        /\ boot[r].pc = "done" /\ boot[r].result = "Err"
        /\ boot[r].steps = <<"Ok", "Err">>
        /\ ~Exists(ClientKey)

\* C22: a run that returned Ok leaves both databases and a document under
\* the default client's key in the store; a run issues at most six backend
\* calls, at most two for each step it took, and every run that started ends.
BootPostState ==
    \A r \in Runners :
        /\ boot[r].calls <= 6
        /\ boot[r].pc = "done" => boot[r].calls <= 2 * Len(boot[r].steps)
        /\ boot[r].result = "Ok" =>
              /\ OAUTH \in dbs /\ USERS \in dbs
              /\ Exists(ClientKey)
BootPostcondition ==
    /\ [](BootPostState)
    /\ \A r \in Runners : (boot[r].pc # "idle") ~> (boot[r].pc = "done")
\* C22's case: a run over an empty store that returned Ok after six calls.
BootPostconditionWitness ==
    \E r \in Runners :
        /\ boot[r].pc = "done" /\ boot[r].result = "Ok"
        /\ boot[r].calls = 6
        /\ dbs = DbNames /\ docs[ClientKey].body = DefaultClient

\* C23: in create_db_if_not_exist every failure of get_self, not found or
\* not, is followed by create_self on the same database, and a failure of
\* create_self is the run's error; in create_oauth_client a probe answered
\* not found is followed by the put, and a probe that failed in any other way
\* ends the run with the error, without a put and with the store unchanged.
ProbeFailureStep ==
    \A r \in Runners :
        /\ (boot[r].pc = "get_self" /\ boot'[r] # boot[r]
                /\ ~IsSuccess(boot'[r].st)) =>
              /\ boot'[r].pc = "create_self"
              /\ boot'[r].db = boot[r].db
              /\ boot'[r].result = "none"
        /\ (boot[r].pc = "create_self" /\ boot'[r] # boot[r]
                /\ ~IsSuccess(boot'[r].st)) =>
              /\ boot'[r].pc = "done"
              /\ boot'[r].result = "Err" /\ boot'[r].err = "Generic"
        /\ (boot[r].pc = "exists" /\ boot'[r] # boot[r]
                /\ boot'[r].st = NOT_FOUND) =>
              boot'[r].pc = "put"
        /\ (boot[r].pc = "exists" /\ boot'[r] # boot[r]
                /\ ~IsSuccess(boot'[r].st) /\ boot'[r].st # NOT_FOUND) =>
              /\ boot'[r].pc = "done"
              /\ boot'[r].result = "Err" /\ boot'[r].err = "Generic"
              /\ docs' = docs
ProbeFailure == [][ProbeFailureStep]_vars
\* C23's case: the probe of a database that exists failed, create_self was
\* refused and the run ended with that error.
ProbeFailureWitness ==
    \E r \in Runners :
        /\ boot[r].pc = "done" /\ boot[r].result = "Err"
        /\ boot[r].db \in dbs
        /\ boot[r].st = 412
        /\ nfaults = 1 /\ ~overlap

\* C24: login_form answers every request with the login form filled with the
\* request's response_type, client_id, redirect_uri, scope and state, the
\* empty string for a request without state, whether validate returned Ok or
\* an error of any kind; it never redirects, never runs handle and leaves the
\* store, the codes and the tokens as they were.
FormState ==
    form.type # "none" =>
        /\ form.type = "form"
        /\ form.query = {}
        /\ form.validated = Validate(form.request)
        /\ form.response_type = form.request.response_type
        /\ form.client_id = form.request.client_id
        /\ form.redirect_uri = form.request.redirect_uri
        /\ {form.scope[i] : i \in 1..Len(form.scope)} = form.request.scope
        /\ Len(form.scope) = Cardinality(form.request.scope)
        /\ form.request.state # "none" => form.state = form.request.state
        /\ form.request.state = "none" => form.state = ""
FormStep ==
    form' # form =>
        UNCHANGED <<dbs, docs, nfaults, lpc, vres, hres, resp, tokens, tok>>
FormAlwaysShown == [](FormState) /\ [][FormStep]_vars
\* C24's case: the form returned to a request whose client is unknown and
\* that carries no state.
FormAlwaysShownWitness ==
    /\ form.type = "form"
    /\ ~form.validated.ok /\ form.validated.kind = "invalid_client"
    /\ form.request.state = "none" /\ form.state = ""
    /\ form.scope # <<>>

\* C25: login parses redirect_uri once validate and handle have returned and
\* before it looks at their outcome: it gives a response, a redirect or the
\* inline invalid_redirect_uri body, exactly to the requests whose
\* redirect_uri parses as a URL; for the others it aborts, with validate's
\* result at hand and no response of any kind.
ParseBeforeDispatch ==
    LoginAnswered =>
        /\ Parses(req.redirect_uri) <=> resp.type \in {"redirect", "bad_request"}
        /\ ~Parses(req.redirect_uri) =>
              /\ resp = Panicked
              /\ vres.kind # "none" /\ Outcome = vres
\* C25's case: a request of a registered client whose redirect_uri is no URL;
\* validate returned invalid_redirect_uri and login aborted.
ParseBeforeDispatchWitness ==
    /\ LoginAnswered
    /\ req.client_id = "enseada" /\ req.redirect_uri = BadUri
    /\ Outcome.kind = "invalid_redirect_uri"
    /\ resp.type = "panic"

====
